---------------------------- MODULE Spec2Model ----------------------------
(***************************************************************************)
(* Model of the pitch-detection core of the accessible guitar tuner:       *)
(*   generateTestFrequencies        src/tests/main_logic.test.js  4-19     *)
(*   interpret_correlation_result   src/tests/main_logic.test.js 22-41     *)
(*   compute_correlations           src/tests/correlation_worker.test.js   *)
(*   AudioProcessor                 src/audio-processor.js                 *)
(*   cycle_string                   src/unnamed/part_000                   *)
(*                                                                         *)
(* JavaScript numbers are IEEE-754 doubles.  The candidate frequencies are *)
(* modelled as doubles bit for bit (sign, 53-bit significand held in four  *)
(* 14-bit limbs, binary exponent) with round-to-nearest-even               *)
(* multiplication.  The decision rule is run on integer amplitudes, on     *)
(* which every double sum is exact, and its two divisions are kept as      *)
(* exact quotients with JavaScript's NaN and Infinity; SpecDoubles runs    *)
(* it in double arithmetic on integer amplitudes times a gain 2^g, with    *)
(* correctly rounded division, overflow and underflow.  The correlation    *)
(* is run at angles that are multiples of 30 degrees, where cos and sin    *)
(* are exact numbers of the form (a + b*sqrt(3))/2.                        *)
(***************************************************************************)
EXTENDS Integers, Sequences, FiniteSets, TLC

VARIABLES pc, base_frequency, semitone_count, i, test_frequencies,
          frequency_amplitudes, maximum_index, confidence, result,
          timeseries, signal_frequency, candidates, sample_rate, amplitudes,
          buffer, lastProcessTime, currentTime, port, contextSampleRate,
          received, postedAt, lastCall, outputs,
          start_index, current_index, visited_indices, gain_exponent

vars == <<pc, base_frequency, semitone_count, i, test_frequencies,
          frequency_amplitudes, maximum_index, confidence, result,
          timeseries, signal_frequency, candidates, sample_rate, amplitudes,
          buffer, lastProcessTime, currentTime, port, contextSampleRate,
          received, postedAt, lastCall, outputs,
          start_index, current_index, visited_indices, gain_exponent>>

buildVars == <<base_frequency, semitone_count, i, test_frequencies>>
decideVars == <<frequency_amplitudes, maximum_index, confidence, result, gain_exponent>>
corrVars == <<timeseries, signal_frequency, candidates, sample_rate, amplitudes>>
audioVars == <<buffer, lastProcessTime, currentTime, port, contextSampleRate,
               received, postedAt, lastCall, outputs>>
cycleVars == <<start_index, current_index, visited_indices>>

(***************************************************************************)
(* IEEE-754 doubles.  D(s, e, m) is the number s * M * 2^e, where s is the *)
(* sign (-1, 0, 1) and M = m[1] + m[2]*2^14 + m[3]*2^28 + m[4]*2^42 is     *)
(* either 0 or a 53-bit integer, 2^52 <= M < 2^53.                         *)
(***************************************************************************)
Limb == 16384

D(s, e, m) == [sign |-> s, exp |-> e, man |-> m]

FZero == D(0, 0, <<0, 0, 0, 0>>)

\* Infinity and NaN, as IEEE-754 encodes them: the exponent above the greatest
\* one, with a zero significand for Infinity and a non-zero one for NaN
FInfinity == D(1, 1024, <<0, 0, 0, 0>>)

FNaN == D(0, 1024, <<1, 0, 0, 0>>)

FNeg(x) == D(0 - x.sign, x.exp, x.man)

\* one column of the schoolbook product of two 4-limb numbers
MulColumn(a, b, k) ==
    LET lo == IF k > 4 THEN k - 3 ELSE 1
        hi == IF k > 4 THEN 4 ELSE k
        term[j \in (lo - 1)..hi] ==
            IF j < lo THEN 0 ELSE term[j - 1] + a[j] * b[k + 1 - j]
    IN  IF k > 7 THEN 0 ELSE term[hi]

\* the 8-limb product of two 4-limb numbers
MulLimbs(a, b) ==
    LET carry[k \in 0..8] ==
            IF k = 0 THEN 0 ELSE (MulColumn(a, b, k) + carry[k - 1]) \div Limb
    IN  [k \in 1..8 |-> (MulColumn(a, b, k) + carry[k - 1]) % Limb]

Pow2Int(r) == IF r = 10 THEN 1024 ELSE 2048

\* limbs 4..8 of p shifted right by r bits (r is 10 or 11): p \div 2^(42+r)
ShiftRight(p, r) ==
    [k \in 1..4 |-> (p[k + 3] \div Pow2Int(r))
                    + (p[k + 4] % Pow2Int(r)) * (Limb \div Pow2Int(r))]

\* a 4-limb number plus one
Increment(m) ==
    LET carry[k \in 0..4] ==
            IF k = 0 THEN 1 ELSE (m[k] + carry[k - 1]) \div Limb
    IN  [k \in 1..4 |-> IF k = 4 THEN m[k] + carry[k - 1]
                        ELSE (m[k] + carry[k - 1]) % Limb]

\* the 106-bit product p of two significands rounded to 53 bits, to nearest
\* and ties to even, with sign s and exponent e of the unrounded product
RoundProduct(p, s, e) ==
    LET r == IF p[8] >= 128 THEN 11 ELSE 10
        q == ShiftRight(p, r)
        rest == p[4] % Pow2Int(r)
        half == Pow2Int(r) \div 2
        low == p[1] # 0 \/ p[2] # 0 \/ p[3] # 0
        up == \/ rest > half
              \/ rest = half /\ low
              \/ rest = half /\ ~low /\ q[1] % 2 = 1
        m == IF up THEN Increment(q) ELSE q
    IN  IF m[4] = 2048
        THEN D(s, e + 42 + r + 1, <<0, 0, 0, 1024>>)
        ELSE D(s, e + 42 + r, m)

\* x * y in double arithmetic
FMul(x, y) ==
    IF x.sign = 0 \/ y.sign = 0 THEN FZero
    ELSE CHOOSE z \in { RoundProduct(p, x.sign * y.sign, x.exp + y.exp) :
                           p \in {MulLimbs(x.man, y.man)} } : TRUE

\* the order of two significands, most significant limb first: -1, 0 or 1
ManCmp(a, b) ==
    LET cmp[k \in 0..4] ==
            IF k = 0 THEN 0
            ELSE IF a[k] < b[k] THEN -1
            ELSE IF a[k] > b[k] THEN 1
            ELSE cmp[k - 1]
    IN  cmp[4]

\* x < y for doubles
FLess(x, y) ==
    IF x.sign # y.sign THEN x.sign < y.sign
    ELSE IF x.sign = 0 THEN FALSE
    ELSE LET below == \/ x.exp < y.exp
                      \/ x.exp = y.exp /\ ManCmp(x.man, y.man) < 0
             above == \/ x.exp > y.exp
                      \/ x.exp = y.exp /\ ManCmp(x.man, y.man) > 0
         IN  IF x.sign = 1 THEN below ELSE above

\* 2 * x, which is exact
FDouble(x) == IF x.sign = 0 THEN x ELSE D(x.sign, x.exp + 1, x.man)

\* the next double above a positive x
FNextUp(x) ==
    LET m == Increment(x.man)
    IN  IF m[4] = 2048 THEN D(x.sign, x.exp + 1, <<0, 0, 0, 1024>>)
        ELSE D(x.sign, x.exp, m)

\* 2^r for r in 0..30
Pow2(r) ==
    LET pow[k \in 0..r] == IF k = 0 THEN 1 ELSE 2 * pow[k - 1]
    IN  pow[r]

\* the number of bits of an integer n, 0 <= n < 2^28
BitLen(n) == CHOOSE b \in 0..28 : n \div Pow2(b) = 0 /\ (b = 0 \/ n \div Pow2(b - 1) # 0)

\* twice a 4-limb number; the top limb takes what does not fit
Twice(m) ==
    LET c1 == (2 * m[1]) \div Limb
        c2 == (2 * m[2] + c1) \div Limb
        c3 == (2 * m[3] + c2) \div Limb
    IN  <<(2 * m[1]) % Limb, (2 * m[2] + c1) % Limb, (2 * m[3] + c2) % Limb,
          2 * m[4] + c3>>

\* a 4-limb number times 2^s
ShiftLeft(m, s) ==
    LET shifted[k \in 0..s] ==
            IF k = 0 THEN <<m[1], m[2], m[3], m[4]>>
            ELSE CHOOSE next \in { Twice(before) : before \in {shifted[k - 1]} } : TRUE
    IN  shifted[s]

\* a - b for two 4-limb numbers, a >= b
Minus(a, b) ==
    LET b1 == IF a[1] - b[1] < 0 THEN 1 ELSE 0
        b2 == IF a[2] - b[2] - b1 < 0 THEN 1 ELSE 0
        b3 == IF a[3] - b[3] - b2 < 0 THEN 1 ELSE 0
    IN  <<(a[1] - b[1] + Limb) % Limb, (a[2] - b[2] - b1 + Limb) % Limb,
          (a[3] - b[3] - b2 + Limb) % Limb, a[4] - b[4] - b3>>

\* the double of an integer n, 0 <= n < 2^28
FromInt(n) ==
    IF n = 0 THEN FZero
    ELSE CHOOSE d \in { D(1, 0 - s, ShiftLeft(<<n % Limb, n \div Limb, 0, 0>>, s)) :
                          s \in {53 - BitLen(n)} } : TRUE

\* the exponents of the leading bit of the greatest and of the least normal
\* double, and the exponent of the last bit of a subnormal double
MaxExponent == 1023

MinExponent == -1022

MinSubnormalExponent == -1074

\* one step of the long division by b: from the quotient and the remainder
\* so far to those with one more bit
DivideNext(before, b) ==
    LET q == Twice(before[1])
        r == Twice(before[2])
    IN  IF ManCmp(r, b) >= 0
        THEN << <<q[1] + 1, q[2], q[3], q[4]>>, Minus(r, b) >>
        ELSE <<q, r>>

\* long division of two 4-limb numbers, b <= a < 2b: <<q, r>> with
\* a * 2^(p-1) = q * b + r and r < b, for p >= 1 bits of quotient
DivideBits(a, b, p) ==
    LET step[k \in 1..p] ==
            IF k = 1 THEN << <<1, 0, 0, 0>>, Minus(a, b) >>
            ELSE CHOOSE next \in { DivideNext(before, b) : before \in {step[k - 1]} } : TRUE
    IN  step[p]

\* the quotient q with remainder r of a division by b, rounded to nearest
\* and ties to even
RoundQuotient(q, r, b) ==
    LET half == ManCmp(Twice(r), b)
        up == Increment(q)
    IN  IF half > 0 \/ (half = 0 /\ q[1] % 2 = 1) THEN <<up[1], up[2], up[3], up[4]>>
        ELSE q

\* the p-bit number q as a double with its leading bit at exponent top
Normalised(q, p, top) ==
    LET m == ShiftLeft(q, 53 - p)
    IN  IF m[4] >= 2048 THEN D(1, top - 51, <<0, 0, 0, 1024>>)
        ELSE D(1, top - 52, m)

\* x / y in double arithmetic for two doubles x > 0 and y > 0: a double, 0
\* on underflow, or Infinity on overflow
FDiv(x, y) ==
    LET ge == ManCmp(x.man, y.man) >= 0
        a == IF ge THEN x.man ELSE Twice(x.man)
        top == x.exp - y.exp - (IF ge THEN 0 ELSE 1)
        p == IF top >= MinExponent THEN 53 ELSE 53 - (MinExponent - top)
        z == IF p >= 1
             THEN CHOOSE d \in { Normalised(RoundQuotient(qr[1], qr[2], y.man), p, top) :
                                   qr \in {DivideBits(a, y.man, p)} } : TRUE
             ELSE IF p = 0 /\ ManCmp(a, y.man) > 0
             THEN D(1, MinSubnormalExponent - 52, <<0, 0, 0, 1024>>)
             ELSE FZero
    IN  IF z.sign # 0 /\ z.exp + 52 > MaxExponent THEN FInfinity ELSE z

(***************************************************************************)
(* generateTestFrequencies                                                 *)
(***************************************************************************)
\* const C2 = 65.41, the double 0x1.05a3d70a3d70ap+6
C2 == D(1, -46, <<5898, 655, 9175, 1046>>)

\* the literal 30 of the loop
SemitoneCount == 30

notes == <<"C", "C#", "D", "D#", "E", "F", "F#", "G", "G#", "A", "A#", "B">>

\* Math.pow(2, k / 12) for k = 0..29, the correctly rounded doubles
Pow2Twelfths ==
  << D(1, -52, <<0, 0, 0, 1024>>),               \* 0x1.0000000000000p+0
     D(1, -52, <<14691, 2917, 14585, 1084>>),    \* 0x1.0f38f92d97963p+0
     D(1, -52, <<5824, 3871, 6572, 1149>>),      \* 0x1.1f59ac3c7d6c0p+0
     D(1, -52, <<14101, 10438, 12256, 1217>>),   \* 0x1.306fe0a31b715p+0
     D(1, -52, <<12939, 9781, 2607, 1290>>),     \* 0x1.428a2f98d728bp+0
     D(1, -52, <<11358, 9155, 14352, 1366>>),    \* 0x1.55b8108f0ec5ep+0
     D(1, -52, <<15309, 6652, 2534, 1448>>),     \* 0x1.6a09e667f3bcdp+0
     D(1, -52, <<4016, 7587, 4365, 1534>>),      \* 0x1.7f910d768cfb0p+0
     D(1, -52, <<11836, 5365, 8170, 1625>>),     \* 0x1.965fea53d6e3cp+0
     D(1, -52, <<5037, 9579, 2553, 1722>>),      \* 0x1.ae89f995ad3adp+0
     D(1, -52, <<297, 7483, 9184, 1824>>),       \* 0x1.c823e074ec129p+0
     D(1, -52, <<4931, 7232, 894, 1933>>),       \* 0x1.e3437e7101343p+0
     D(1, -51, <<0, 0, 0, 1024>>),               \* 0x1.0000000000000p+1
     D(1, -51, <<14691, 2917, 14585, 1084>>),    \* 0x1.0f38f92d97963p+1
     D(1, -51, <<5824, 3871, 6572, 1149>>),      \* 0x1.1f59ac3c7d6c0p+1
     D(1, -51, <<14101, 10438, 12256, 1217>>),   \* 0x1.306fe0a31b715p+1
     D(1, -51, <<12939, 9781, 2607, 1290>>),     \* 0x1.428a2f98d728bp+1
     D(1, -51, <<11358, 9155, 14352, 1366>>),    \* 0x1.55b8108f0ec5ep+1
     D(1, -51, <<15309, 6652, 2534, 1448>>),     \* 0x1.6a09e667f3bcdp+1
     D(1, -51, <<4016, 7587, 4365, 1534>>),      \* 0x1.7f910d768cfb0p+1
     D(1, -51, <<11837, 5365, 8170, 1625>>),     \* 0x1.965fea53d6e3dp+1
     D(1, -51, <<5037, 9579, 2553, 1722>>),      \* 0x1.ae89f995ad3adp+1
     D(1, -51, <<297, 7483, 9184, 1824>>),       \* 0x1.c823e074ec129p+1
     D(1, -51, <<4932, 7232, 894, 1933>>),       \* 0x1.e3437e7101344p+1
     D(1, -50, <<0, 0, 0, 1024>>),               \* 0x1.0000000000000p+2
     D(1, -50, <<14691, 2917, 14585, 1084>>),    \* 0x1.0f38f92d97963p+2
     D(1, -50, <<5823, 3871, 6572, 1149>>),      \* 0x1.1f59ac3c7d6bfp+2
     D(1, -50, <<14101, 10438, 12256, 1217>>),   \* 0x1.306fe0a31b715p+2
     D(1, -50, <<12939, 9781, 2607, 1290>>),     \* 0x1.428a2f98d728bp+2
     D(1, -50, <<11357, 9155, 14352, 1366>>) >>  \* 0x1.55b8108f0ec5dp+2

\* Math.pow(2, 1 / 48), the double 0x1.03b93e39ddb43p+0
Pow2QuarterUp == D(1, -52, <<6979, 3703, 14654, 1038>>)

\* Math.pow(2, -1 / 48), the double 0x1.f8a8d8c60f8b0p-1
Pow2QuarterDown == D(1, -53, <<14512, 12675, 10456, 2018>>)

\* JavaScript arrays are indexed from 0
At0(seq, k) == seq[k + 1]

note_frequency_in_octave(base, k) == FMul(base, At0(Pow2Twelfths, k % 12))

\* const note_frequency = C2 * Math.pow(2, i / 12)
note_frequency(base, k) == FMul(base, At0(Pow2Twelfths, k))

\* const note_name = notes[i % 12]
note_name(k) == At0(notes, k % 12)

\* const note = { frequency: note_frequency, name: note_name }
note(base, k) == [frequency |-> note_frequency(base, k), name |-> note_name(k)]

\* const just_above = { frequency: note_frequency * Math.pow(2, 1 / 48), ... }
just_above(base, k) ==
    [frequency |-> FMul(note_frequency(base, k), Pow2QuarterUp),
     name |-> note_name(k) \o " (a bit sharp)"]

just_below_raised(base, k) ==
    [frequency |-> FMul(note_frequency(base, k), Pow2QuarterUp),
     name |-> note_name(k) \o " (a bit flat)"]

\* const just_below = { frequency: note_frequency * Math.pow(2, -1 / 48), ... }
just_below(base, k) ==
    [frequency |-> FMul(note_frequency(base, k), Pow2QuarterDown),
     name |-> note_name(k) \o " (a bit flat)"]

Push3NoteFirst(table, base, k) ==
    table \o <<note(base, k), just_below(base, k), just_above(base, k)>>

\* test_frequencies.push(just_below, note, just_above)
Push3(table, base, k) ==
    table \o <<just_below(base, k), note(base, k), just_above(base, k)>>

LoopStopsEarly(k, count) == k < count - 1

\* for (let i = 0; i < 30; i++)
LoopContinues(k, count) == k < count

(***************************************************************************)
(* interpret_correlation_result.  A JavaScript number is an exact quotient  *)
(* num/den (den > 0), NaN or Infinity.                                      *)
(***************************************************************************)
Num(n) == [kind |-> "number", num |-> n, den |-> 1]

NaN == [kind |-> "NaN", num |-> 0, den |-> 0]

Infinity == [kind |-> "Infinity", num |-> 0, den |-> 0]

Unset == [kind |-> "unset", num |-> 0, den |-> 0]

\* a / b in JavaScript, for a >= 0 and b >= 0
Div(a, b) ==
    IF a.kind = "NaN" \/ b.kind = "NaN" THEN NaN
    ELSE IF a.kind = "Infinity" THEN (IF b.kind = "Infinity" THEN NaN ELSE Infinity)
    ELSE IF b.kind = "Infinity" THEN Num(0)
    ELSE IF b.num = 0 THEN (IF a.num = 0 THEN NaN ELSE Infinity)
    ELSE [kind |-> "number", num |-> a.num * b.den, den |-> a.den * b.num]

\* a > b in JavaScript: false as soon as one side is NaN
Gt(a, b) ==
    IF a.kind = "NaN" \/ b.kind = "NaN" THEN FALSE
    ELSE IF a.kind = "Infinity" THEN b.kind # "Infinity"
    ELSE IF b.kind = "Infinity" THEN FALSE
    ELSE a.num * b.den > b.num * a.den

\* the values a call returns that are not table entries
null == [frequency |-> FZero, name |-> "null"]

undefined == [frequency |-> FZero, name |-> "undefined"]

NoResult == [frequency |-> FZero, name |-> "no call yet"]

\* table[k] in JavaScript: undefined outside the array
Index0(table, k) ==
    IF k >= 0 /\ k < Len(table) THEN table[k + 1] ELSE undefined

\* frequency_amplitudes.map(z => z[0] * z[0] + z[1] * z[1])
magnitudes(amps) == [k \in 1..Len(amps) |-> amps[k][1] * amps[k][1] + amps[k][2] * amps[k][2]]

\* if (magnitudes[i] <= maximum_magnitude) continue
SkipsLower(m, mx) == m < mx

Skips(m, mx) == m <= mx

\* the scan for the maximum: <<maximum_index, maximum_magnitude>> after the loop
ScanMaximum(mags) ==
    LET scan[k \in 0..Len(mags)] ==
            IF k = 0 THEN <<-1, 0>>
            ELSE LET before == scan[k - 1]
                 IN  IF Skips(mags[k], before[2]) THEN before
                     ELSE <<k - 1, mags[k]>>
    IN  scan[Len(mags)]

\* magnitudes.reduce((a, b) => a + b, 0)
Reduce(mags) ==
    LET acc[k \in 0..Len(mags)] == IF k = 0 THEN 0 ELSE acc[k - 1] + mags[k]
    IN  acc[Len(mags)]

\* const average = magnitudes.reduce(...) / magnitudes.length
Average(mags) == Div(Num(Reduce(mags)), Num(Len(mags)))

\* const confidence_threshold = 10
confidence_threshold == 10

\* if (confidence > confidence_threshold)
ExceedsOrEquals(c) ==
    \/ c.kind = "Infinity"
    \/ c.kind = "number" /\ c.num >= confidence_threshold * c.den

ExceedsNotAtMost(c) ==
    ~(c.kind = "number" /\ c.num <= confidence_threshold * c.den)

Exceeds(c) == Gt(c, Num(confidence_threshold))

\* lines 25-40, with the array magnitudes already computed
InterpretMagnitudes(mags, table) ==
    LET found == ScanMaximum(mags)
        conf == Div(Num(found[2]), Average(mags))
    IN  [maximum_index |-> found[1],
         confidence |-> conf,
         value |-> IF Exceeds(conf) THEN Index0(table, found[1]) ELSE null]

\* the whole call: what it computes and what it returns (the array magnitudes
\* is evaluated once, as the const of line 23 is)
interpret_correlation_result(amps, table) ==
    CHOOSE r \in { InterpretMagnitudes(mags, table) : mags \in {magnitudes(amps)} } : TRUE

\* the longest correlation result tried
MaxCand == 21

\* the amplitude pairs tried: squared magnitudes 0, 1 and 10
PairVals == {<<0, 0>>, <<0, -1>>, <<3, 1>>}

\* a correlation result of n pairs: the pair bg everywhere but v1 at place p1
\* and v2 at place p2 (place 0: nowhere)
AmpInput(n, p1, v1, p2, v2, bg) ==
    [k \in 1..n |-> IF k = p1 THEN v1 ELSE IF k = p2 THEN v2 ELSE bg]

InitDecide ==
    /\ frequency_amplitudes = <<>>
    /\ maximum_index = -1
    /\ confidence = Unset
    /\ result = NoResult
    /\ gain_exponent = 0

(***************************************************************************)
(* interpret_correlation_result in double arithmetic.  The amplitudes of a *)
(* call are pairs of integers times a common gain 2^g, so that the squared *)
(* magnitudes and their sums are whole numbers of one unit 2^e: they are   *)
(* exact while they stay in the range of the doubles, round to the nearest *)
(* multiple of 2^-1074 below it, and are Infinity above it.  The two       *)
(* divisions are correctly rounded double divisions.                       *)
(***************************************************************************)
\* the unit of the squared magnitudes of amplitudes at gain 2^g
UnitExponent(g) == IF 2 * g < MinSubnormalExponent THEN MinSubnormalExponent ELSE 2 * g

\* a number of units that stands for Infinity: above every finite one
Overflowed == 1073741824

\* k * 2^e is beyond the greatest double
Overflows(k, e) == k > 0 /\ BitLen(k) + e > MaxExponent + 1

\* k / 2^r rounded to the nearest integer, ties to even (0 <= k < 2^28)
RoundToUnits(k, r) ==
    IF r >= 29 THEN 0
    ELSE LET q == k \div Pow2(r)
             rest == k % Pow2(r)
             half == Pow2(r) \div 2
         IN  IF r = 0 THEN k
             ELSE IF rest > half \/ (rest = half /\ q % 2 = 1) THEN q + 1
             ELSE q

\* z[0] * z[0] for z[0] = a * 2^g, in units
SquareUnits(a, g) ==
    IF Overflows(a * a, 2 * g) THEN Overflowed
    ELSE RoundToUnits(a * a, UnitExponent(g) - 2 * g)

\* a + b for two numbers of units of 2^e
AddUnits(a, b, e) ==
    IF a = Overflowed \/ b = Overflowed \/ Overflows(a + b, e) THEN Overflowed
    ELSE a + b

\* frequency_amplitudes.map(z => z[0] * z[0] + z[1] * z[1]) at gain 2^g
magnitudes_at_gain(amps, g) ==
    [k \in 1..Len(amps) |->
        AddUnits(SquareUnits(amps[k][1], g), SquareUnits(amps[k][2], g), UnitExponent(g))]

\* magnitudes.reduce((a, b) => a + b, 0)
ReduceUnits(mags, e) ==
    LET acc[k \in 0..Len(mags)] ==
            IF k = 0 THEN 0 ELSE AddUnits(acc[k - 1], mags[k], e)
    IN  acc[Len(mags)]

\* the double that k units of 2^e are
FromUnits(k, e) ==
    IF k = Overflowed THEN FInfinity
    ELSE IF k = 0 THEN FZero
    ELSE CHOOSE d \in { D(1, x.exp + e, x.man) : x \in {FromInt(k)} } : TRUE

\* 0 / 0 taken for Infinity
FQuotientZeroByZeroInfinite(a, b) ==
    IF a = FNaN \/ b = FNaN THEN FNaN
    ELSE IF a = FInfinity THEN (IF b = FInfinity THEN FNaN ELSE FInfinity)
    ELSE IF b = FInfinity THEN FZero
    ELSE IF b = FZero THEN FInfinity
    ELSE IF a = FZero THEN FZero
    ELSE FDiv(a, b)

\* a / b in JavaScript for two doubles a >= 0 and b >= 0, NaN and Infinity
\* included
FQuotient(a, b) ==
    IF a = FNaN \/ b = FNaN THEN FNaN
    ELSE IF a = FInfinity THEN (IF b = FInfinity THEN FNaN ELSE FInfinity)
    ELSE IF b = FInfinity THEN FZero
    ELSE IF b = FZero THEN (IF a = FZero THEN FNaN ELSE FInfinity)
    ELSE IF a = FZero THEN FZero
    ELSE FDiv(a, b)

\* a > b in JavaScript for two doubles: false as soon as one side is NaN
FGreater(a, b) == a # FNaN /\ b # FNaN /\ FLess(b, a)

\* const average = magnitudes.reduce(...) / magnitudes.length
AverageUnitsOffByOne(mags, e) ==
    FQuotient(FromUnits(ReduceUnits(mags, e), e), FromInt(Len(mags) + 1))

AverageUnits(mags, e) ==
    FQuotient(FromUnits(ReduceUnits(mags, e), e), FromInt(Len(mags)))

\* lines 25-40 on amplitudes at gain 2^g, with the array magnitudes already
\* computed in units of 2^e
InterpretUnits(mags, e, table) ==
    LET found == ScanMaximum(mags)
        average == AverageUnits(mags, e)
        conf == FQuotient(FromUnits(found[2], e), average)
    IN  [maximum_index |-> found[1],
         confidence |-> conf,
         value |-> IF FGreater(conf, FromInt(confidence_threshold))
                   THEN Index0(table, found[1]) ELSE null]

\* the whole call on the amplitudes amps[k] * 2^g
interpret_correlation_result_at_gain(amps, g, table) ==
    CHOOSE r \in { InterpretUnits(mags, UnitExponent(g), table) :
                      mags \in {magnitudes_at_gain(amps, g)} } : TRUE

\* the longest correlation result tried in double arithmetic
MaxGainCand == 12

\* the amplitude pairs tried: squared magnitudes 0, 1, 10 and 17
GainPairVals == {<<0, 0>>, <<0, -1>>, <<3, 1>>, <<1, 4>>}

\* the pairs tried away from the peak: squared magnitudes 0 and 1
BackgroundPairVals == {<<0, 0>>, <<0, -1>>}

\* the gains 2^g tried: none, twice, and the ones that take the squared
\* magnitudes to the two ends of the range of the doubles and beyond
GainExponents == {0, 1, 512, -530, -537, -538}

(***************************************************************************)
(* compute_correlations.  The sample rate divides 12 times the frequencies  *)
(* so that every angle scale_factor * frequency * t is a whole number of    *)
(* steps of 30 degrees.  A sample or a cosine is the pair <<a, b>> for      *)
(* (a + b*sqrt(3))/2, an accumulator the pair <<a, b>> for                  *)
(* (a + b*sqrt(3))/4 and a squared magnitude the pair <<a, b>> for          *)
(* (a + b*sqrt(3))/16.                                                      *)
(***************************************************************************)
\* twice the cosine of 0, 30, ..., 330 degrees
CosHalves ==
    << <<2, 0>>, <<0, 1>>, <<1, 0>>, <<0, 0>>, <<-1, 0>>, <<0, -1>>,
       <<-2, 0>>, <<0, -1>>, <<-1, 0>>, <<0, 0>>, <<1, 0>>, <<0, 1>> >>

\* Math.cos of an angle of so many steps of 30 degrees
Cos(steps) == CosHalves[(steps % 12) + 1]

\* Math.sin of an angle of so many steps of 30 degrees
Sin(steps) == Cos(steps + 9)

\* scale_factor * frequency * t = 2 * PI * frequency * t / sample_rate, in steps
AngleSteps(frequency, t, rate) == (12 * frequency * t) \div rate

\* the product of two numbers in halves, in quarters
MulHalves(u, v) == <<u[1] * v[1] + 3 * u[2] * v[2], u[1] * v[2] + u[2] * v[1]>>

AddPair(u, v) == <<u[1] + v[1], u[2] + v[2]>>

\* timeseries.push(Math.sin(2 * Math.PI * frequency * t / sample_rate)), t < n
SineWave(frequency, rate, n) == [k \in 1..n |-> Sin(AngleSteps(frequency, k - 1, rate))]

AccumulateCosTwice(samples, frequency, rate) ==
    LET acc[k \in 0..Len(samples)] ==
            IF k = 0 THEN << <<0, 0>>, <<0, 0>> >>
            ELSE LET before == acc[k - 1]
                     angle == AngleSteps(frequency, k - 1, rate)
                 IN  << AddPair(before[1], MulHalves(samples[k], Cos(angle))),
                        AddPair(before[2], MulHalves(samples[k], Cos(angle))) >>
    IN  acc[Len(samples)]

\* the loop over t for one candidate: <<accumulator[0], accumulator[1]>>
Accumulate(samples, frequency, rate) ==
    LET acc[k \in 0..Len(samples)] ==
            IF k = 0 THEN << <<0, 0>>, <<0, 0>> >>
            ELSE LET before == acc[k - 1]
                     angle == AngleSteps(frequency, k - 1, rate)
                 IN  << AddPair(before[1], MulHalves(samples[k], Cos(angle))),
                        AddPair(before[2], MulHalves(samples[k], Sin(angle))) >>
    IN  acc[Len(samples)]

compute_correlations_per_sample(samples, table, rate) ==
    [k \in 1..Len(samples) |-> Accumulate(samples, table[1].frequency, rate)]

\* test_frequencies.map(function(f) { ... return accumulator })
compute_correlations(samples, table, rate) ==
    [k \in 1..Len(table) |-> Accumulate(samples, table[k].frequency, rate)]

\* the square of a number in quarters, in sixteenths
SquareQuarters(u) == <<u[1] * u[1] + 3 * u[2] * u[2], 2 * u[1] * u[2]>>

\* r[0] * r[0] + r[1] * r[1]
squared_magnitude(r) == AddPair(SquareQuarters(r[1]), SquareQuarters(r[2]))

\* a + b*sqrt(3) > 0
Positive(a, b) ==
    \/ a >= 0 /\ b >= 0 /\ (a > 0 \/ b > 0)
    \/ a > 0 /\ b < 0 /\ a * a > 3 * b * b
    \/ a < 0 /\ b > 0 /\ 3 * b * b > a * a

\* u < v for two numbers on the same scale
LessPair(u, v) == Positive(v[1] - u[1], v[2] - u[2])

\* the longest sample window tried
MaxWindow == 12

\* the most candidates tried in one correlation
MaxCorrCand == 3

\* the sample rates tried, in Hz
SampleRates == {6, 12}

\* the frequencies below half the sample rate, in Hz
Frequencies(rate) == 1..((rate \div 2) - 1)

\* the candidate tables tried: distinct frequencies in any order
CandidateTables(rate) ==
    { table \in UNION { [1..n -> [frequency : Frequencies(rate), name : {"note"}]] :
                          n \in 1..MaxCorrCand } :
        \A j \in 1..Len(table) : \A k \in 1..Len(table) :
            j # k => table[j].frequency # table[k].frequency }

(***************************************************************************)
(* AudioProcessor (src/audio-processor.js).  globalThis.currentTime and    *)
(* lastProcessTime are held in ticks of 1/TicksPerSecond seconds.  A       *)
(* sample is the pair <<channel, k>>: the k-th frame the processor has     *)
(* been given, on that channel.                                            *)
(***************************************************************************)
\* this.sampleLength, in milliseconds
sampleLength == 100

\* this.processInterval, in milliseconds
processInterval == 250

\* the sampleRate literal of the posted message
MessageSampleRate == 48000

\* ticks of currentTime in one second
TicksPerSecond == 8

\* the latest currentTime tried, in ticks
MaxTime == 5

\* the most frames given to the processor over a run
MaxSamples == 4

\* the most frames in the channels of one call
MaxFrames == 2

\* the most channels of an input or of an output
MaxChannels == 2

\* the sample rates of the audio context tried, in Hz
ContextSampleRates == {20, 44100, 48000}

\* input[channel] of a call given the frames received + 1 .. received + n
InputChannel(channel, first, n) == [k \in 1..n |-> <<channel, first + k>>]

IntervalElapsedSinceStart(now, last) == now * 1000 >= processInterval * TicksPerSecond

\* (currentTime - this.lastProcessTime) * 1000 >= this.processInterval
IntervalElapsed(now, last) == (now - last) * 1000 >= processInterval * TicksPerSecond

\* this.buffer.length > 0
BufferReady(buf) == Len(buf) > 0

PostedBufferTail(buf) == Tail(buf)

\* this.buffer.slice()
PostedBuffer(buf) == buf

\* the message handed to this.port.postMessage
AudioData(buf) ==
    [type |-> "audio-data", buffer |-> PostedBuffer(buf), sampleRate |-> MessageSampleRate]

\* the pass-through loop assigns into output[channel] for every channel of
\* the input; a channel the output does not have is undefined, and the
\* assignment outputChannel[i] = ... into it raises a TypeError
PassThroughRaises(ic, oc, n) == oc >= 1 /\ oc < ic /\ n > 0

\* the channels of the output after the pass-through loop
PassThrough(ic, oc, first, n, before) ==
    IF oc >= 1
    THEN [c \in 1..oc |-> IF c <= ic THEN InputChannel(c - 1, first, n) ELSE before[c]]
    ELSE before

\* the output of a call before the processor writes it: silence
Silence(oc, n) == [c \in 1..oc |-> [k \in 1..n |-> <<c - 1, 0>>]]

NoCall == [returned |-> "no call yet", posted |-> FALSE]

InitAudio ==
    /\ buffer = <<>>
    /\ lastProcessTime = 0
    /\ currentTime = 0
    /\ port = <<>>
    /\ contextSampleRate = MessageSampleRate
    /\ received = 0
    /\ postedAt = <<>>
    /\ lastCall = NoCall
    /\ outputs = <<>>

(***************************************************************************)
(* The reference strings (src/unnamed/part_000).  A frequency is held in   *)
(* hundredths of a hertz.                                                  *)
(***************************************************************************)
guitar_strings ==
    << [name |-> "E (low)", frequency |-> 8241],
       [name |-> "A", frequency |-> 11000],
       [name |-> "D", frequency |-> 14683],
       [name |-> "G", frequency |-> 19600],
       [name |-> "B", frequency |-> 24694],
       [name |-> "E (high)", frequency |-> 32963] >>

cycle_string_without_wrap(index) == index + 1

\* (current_index + 1) % guitar_strings.length
cycle_string(index) == (index + 1) % Len(guitar_strings)

\* guitar_strings[index]
get_current_string(index) == guitar_strings[index + 1]

\* the most applications of cycle_string in a row
MaxCycles == 24

InitCycle ==
    /\ start_index = 0
    /\ current_index = 0
    /\ visited_indices = <<>>

InitCorr ==
    /\ timeseries = <<>>
    /\ signal_frequency = 0
    /\ candidates = <<>>
    /\ sample_rate = 0
    /\ amplitudes = <<>>

\* the program as written: C2 = 65.41 and 30 semitones
Init ==
    /\ pc = "build"
    /\ base_frequency = C2
    /\ semitone_count = SemitoneCount
    /\ i = 0
    /\ test_frequencies = <<>>
    /\ InitDecide
    /\ InitCorr
    /\ InitAudio
    /\ InitCycle

\* one iteration of the loop of generateTestFrequencies
BuildStep ==
    /\ pc = "build"
    /\ LoopContinues(i, semitone_count)
    /\ test_frequencies' = Push3(test_frequencies, base_frequency, i)
    /\ i' = i + 1
    /\ UNCHANGED <<pc, base_frequency, semitone_count>>
    /\ UNCHANGED decideVars
    /\ UNCHANGED corrVars
    /\ UNCHANGED audioVars
    /\ UNCHANGED cycleVars

\* the loop ends and the table is returned
BuildReturn ==
    /\ pc = "build"
    /\ ~LoopContinues(i, semitone_count)
    /\ pc' = "ready"
    /\ UNCHANGED buildVars
    /\ UNCHANGED decideVars
    /\ UNCHANGED corrVars
    /\ UNCHANGED audioVars
    /\ UNCHANGED cycleVars

\* a call of interpret_correlation_result on the table built
Interpret ==
    /\ pc = "ready"
    /\ \E n \in 0..MaxCand, bg \in PairVals, v1 \in PairVals, v2 \in PairVals :
        \E p2 \in 0..n : \E p1 \in 0..(IF p2 = 0 THEN n ELSE p2 - 1) :
          LET amps == AmpInput(n, p1, v1, p2, v2, bg)
              r == interpret_correlation_result(amps, test_frequencies)
          IN  /\ frequency_amplitudes' = amps
              /\ maximum_index' = r.maximum_index
              /\ confidence' = r.confidence
              /\ result' = r.value
    /\ pc' = "done"
    /\ UNCHANGED gain_exponent
    /\ UNCHANGED buildVars
    /\ UNCHANGED corrVars
    /\ UNCHANGED audioVars
    /\ UNCHANGED cycleVars

Next == BuildStep \/ BuildReturn \/ Interpret

Spec == Init /\ [][Next]_vars

(***************************************************************************)
(* The decision rule in double arithmetic: the table is built and          *)
(* interpret_correlation_result is called on a correlation result of       *)
(* amplitudes at a common gain.                                            *)
(***************************************************************************)
\* a call of interpret_correlation_result on the table built, on amplitudes
\* that are integer pairs times 2^g
InterpretAtGain ==
    /\ pc = "ready"
    /\ \E n \in 0..MaxGainCand, bg \in BackgroundPairVals, v1 \in GainPairVals,
          g \in GainExponents :
        \E p1 \in 0..n :
          LET amps == AmpInput(n, p1, v1, 0, v1, bg)
              r == interpret_correlation_result_at_gain(amps, g, test_frequencies)
          IN  /\ frequency_amplitudes' = amps
              /\ gain_exponent' = g
              /\ maximum_index' = r.maximum_index
              /\ confidence' = r.confidence
              /\ result' = r.value
    /\ pc' = "done"
    /\ UNCHANGED buildVars
    /\ UNCHANGED corrVars
    /\ UNCHANGED audioVars
    /\ UNCHANGED cycleVars

NextDoubles == BuildStep \/ BuildReturn \/ InterpretAtGain

SpecDoubles == Init /\ [][NextDoubles]_vars

(***************************************************************************)
(* The builder with its two literals as arguments:                         *)
(* build_candidate_table(base_frequency, semitone_count).                  *)
(***************************************************************************)
BaseInputs == {C2, FZero, FNeg(C2)}

CountInputs == -1..SemitoneCount

InitConfig ==
    /\ pc = "build"
    /\ base_frequency \in BaseInputs
    /\ semitone_count \in CountInputs
    /\ i = 0
    /\ test_frequencies = <<>>
    /\ InitDecide
    /\ InitCorr
    /\ InitAudio
    /\ InitCycle

NextConfig == BuildStep \/ BuildReturn

SpecConfig == InitConfig /\ [][NextConfig]_vars

(***************************************************************************)
(* The correlation of a sampled sine wave against a candidate table.       *)
(***************************************************************************)
InitCorrelate ==
    /\ pc = "window"
    /\ base_frequency = C2
    /\ semitone_count = SemitoneCount
    /\ i = 0
    /\ test_frequencies = <<>>
    /\ InitDecide
    /\ sample_rate \in SampleRates
    /\ signal_frequency \in Frequencies(sample_rate)
    /\ candidates \in CandidateTables(sample_rate)
    /\ \E n \in 0..MaxWindow : timeseries = SineWave(signal_frequency, sample_rate, n)
    /\ amplitudes = <<>>
    /\ InitAudio
    /\ InitCycle

\* a call of compute_correlations
Correlate ==
    /\ pc = "window"
    /\ amplitudes' = compute_correlations(timeseries, candidates, sample_rate)
    /\ pc' = "correlated"
    /\ UNCHANGED <<timeseries, signal_frequency, candidates, sample_rate>>
    /\ UNCHANGED buildVars
    /\ UNCHANGED decideVars
    /\ UNCHANGED audioVars
    /\ UNCHANGED cycleVars

NextCorrelate == Correlate

SpecCorrelate == InitCorrelate /\ [][NextCorrelate]_vars

(***************************************************************************)
(* The audio processor called by the audio rendering thread.               *)
(***************************************************************************)
InitCapture ==
    /\ pc = "capture"
    /\ base_frequency = C2
    /\ semitone_count = SemitoneCount
    /\ i = 0
    /\ test_frequencies = <<>>
    /\ InitDecide
    /\ InitCorr
    /\ buffer = <<>>
    /\ lastProcessTime = 0
    /\ currentTime = 0
    /\ port = <<>>
    /\ contextSampleRate \in ContextSampleRates
    /\ received = 0
    /\ postedAt = <<>>
    /\ lastCall = NoCall
    /\ outputs = <<>>
    /\ InitCycle

\* a call of process(inputs, outputs, parameters): inputs[0] has ic channels
\* of n frames and outputs[0] has oc channels of n frames, -1 channels
\* standing for an absent inputs[0] or outputs[0]
Process ==
    /\ pc = "capture"
    /\ lastCall.returned # "TypeError"
    /\ \E ic \in -1..MaxChannels, oc \in -1..MaxChannels, n \in 0..MaxFrames :
        /\ received + n <= MaxSamples
        /\ IF ic < 1
           THEN /\ lastCall' = [returned |-> "true", posted |-> FALSE]
                /\ outputs' = Silence(oc, n)
                /\ UNCHANGED <<buffer, lastProcessTime, port, received, postedAt>>
           ELSE LET pushed == buffer \o InputChannel(0, received, n)
                    post == BufferReady(pushed) /\ IntervalElapsed(currentTime, lastProcessTime)
                IN  /\ received' = received + n
                    /\ IF post
                       THEN /\ port' = Append(port, AudioData(pushed))
                            /\ buffer' = <<>>
                            /\ lastProcessTime' = currentTime
                            /\ postedAt' = Append(postedAt, currentTime)
                       ELSE /\ buffer' = pushed
                            /\ UNCHANGED <<port, lastProcessTime, postedAt>>
                    /\ outputs' = PassThrough(ic, oc, received, n, Silence(oc, n))
                    /\ lastCall' = [returned |-> IF PassThroughRaises(ic, oc, n)
                                                 THEN "TypeError" ELSE "true",
                                    posted |-> post]
    /\ UNCHANGED <<pc, currentTime, contextSampleRate>>
    /\ UNCHANGED buildVars
    /\ UNCHANGED decideVars
    /\ UNCHANGED corrVars
    /\ UNCHANGED cycleVars

\* the rendering thread advances globalThis.currentTime
AdvanceTime ==
    /\ pc = "capture"
    /\ currentTime < MaxTime
    /\ currentTime' = currentTime + 1
    /\ UNCHANGED <<pc, buffer, lastProcessTime, port, contextSampleRate,
                   received, postedAt, lastCall, outputs>>
    /\ UNCHANGED buildVars
    /\ UNCHANGED decideVars
    /\ UNCHANGED corrVars
    /\ UNCHANGED cycleVars

NextCapture == Process \/ AdvanceTime

SpecCapture == InitCapture /\ [][NextCapture]_vars

(***************************************************************************)
(* Cycling through the reference strings.                                  *)
(***************************************************************************)
InitCycling ==
    /\ pc = "cycling"
    /\ base_frequency = C2
    /\ semitone_count = SemitoneCount
    /\ i = 0
    /\ test_frequencies = <<>>
    /\ InitDecide
    /\ InitCorr
    /\ InitAudio
    /\ start_index \in 0..(Len(guitar_strings) - 1)
    /\ current_index = start_index
    /\ visited_indices = <<>>

\* current_index = cycle_string(current_index)
Cycle ==
    /\ pc = "cycling"
    /\ Len(visited_indices) < MaxCycles
    /\ current_index' = cycle_string(current_index)
    /\ visited_indices' = Append(visited_indices, cycle_string(current_index))
    /\ UNCHANGED <<pc, start_index>>
    /\ UNCHANGED buildVars
    /\ UNCHANGED decideVars
    /\ UNCHANGED corrVars
    /\ UNCHANGED audioVars

NextCycling == Cycle

SpecCycling == InitCycling /\ [][NextCycling]_vars

(***************************************************************************)
(* Properties of the decision rule, stated on the call's input and output. *)
(***************************************************************************)
\* the squared magnitudes of the correlation result of the call
InputMagnitudes ==
    [k \in 1..Len(frequency_amplitudes) |->
        frequency_amplitudes[k][1] * frequency_amplitudes[k][1]
        + frequency_amplitudes[k][2] * frequency_amplitudes[k][2]]

\* the greatest value of a non-empty array of naturals
Greatest(m) == CHOOSE v \in {m[k] : k \in 1..Len(m)} : \A k \in 1..Len(m) : m[k] <= v

\* the sum of an array of naturals
Total(m) ==
    LET acc[k \in 0..Len(m)] == IF k = 0 THEN 0 ELSE acc[k - 1] + m[k]
    IN  acc[Len(m)]

\* max / mean > 10, for a non-empty array with a non-zero mean
RatioAboveTen(m) ==
    /\ Len(m) > 0
    /\ Total(m) > 0
    /\ Greatest(m) * Len(m) > 10 * Total(m)

C5_DegenerateInputIsNoDetection ==
    (/\ pc = "done"
     /\ \A k \in 1..Len(frequency_amplitudes) : frequency_amplitudes[k] = <<0, 0>>)
        => result = null

C5_Witness ==
    /\ pc = "done"
    /\ Len(frequency_amplitudes) > 0
    /\ \A k \in 1..Len(frequency_amplitudes) : frequency_amplitudes[k] = <<0, 0>>
    /\ confidence = NaN
    /\ result = null

\* all n >= 1 squared magnitudes of the call are equal and not 0
AllEqualNonZero(m) ==
    /\ Len(m) >= 1
    /\ m[1] # 0
    /\ \A k \in 1..Len(m) : m[k] = m[1]

\* C7: a call that returns a candidate returns the one at the lowest index
\* whose squared magnitude is the greatest.
C7_FirstMaximumWins ==
    (pc = "done" /\ result # null) =>
        \E m \in {InputMagnitudes} :
            /\ maximum_index >= 0
            /\ maximum_index < Len(m)
            /\ m[maximum_index + 1] = Greatest(m)
            /\ \A k \in 1..maximum_index : m[k] < Greatest(m)
            /\ result = test_frequencies[maximum_index + 1]

C7_Witness ==
    /\ pc = "done"
    /\ result # null
    /\ \E j \in 1..Len(frequency_amplitudes) :
          /\ j > maximum_index + 1
          /\ InputMagnitudes[j] = InputMagnitudes[maximum_index + 1]

(***************************************************************************)
(* Properties of the candidate table.                                      *)
(***************************************************************************)
ChromaticNames == <<"C", "C#", "D", "D#", "E", "F", "F#", "G", "G#", "A", "A#", "B">>

\* the table entry at JavaScript index k
Entry(k) == test_frequencies[k + 1]

\* C2: the table holds 3 entries per semitone built, 90 when the builder
\* returns, and the entries 3k, 3k+1, 3k+2 are labelled name + " (a bit flat)",
\* name and name + " (a bit sharp)" with name = chromatic_names[k mod 12].
C2_TriplesPerSemitone ==
    /\ Len(test_frequencies) = 3 * i
    /\ pc # "build" => Len(test_frequencies) = 3 * SemitoneCount /\ Len(test_frequencies) = 90
    /\ \A k \in 0..(i - 1) :
          /\ Entry(3 * k).name = ChromaticNames[(k % 12) + 1] \o " (a bit flat)"
          /\ Entry(3 * k + 1).name = ChromaticNames[(k % 12) + 1]
          /\ Entry(3 * k + 2).name = ChromaticNames[(k % 12) + 1] \o " (a bit sharp)"

C2_Witness ==
    /\ pc = "ready"
    /\ Len(test_frequencies) = 90
    /\ Entry(88).name = "F"

\* the positive doubles a and b are at most two units in the last place apart
WithinTwoUlps(a, b) ==
    \/ a = b
    \/ FNextUp(a) = b \/ FNextUp(FNextUp(a)) = b
    \/ FNextUp(b) = a \/ FNextUp(FNextUp(b)) = a

\* C8 as claimed: the exact frequency of semitone k + 12 is exactly twice the
\* exact frequency of semitone k, under the same note name.
C8_ExactlyTwice ==
    \A k \in 0..(i - 13) :
        /\ Entry(3 * (k + 12) + 1).frequency = FDouble(Entry(3 * k + 1).frequency)
        /\ Entry(3 * (k + 12) + 1).name = Entry(3 * k + 1).name

\* C8 amended: the exact frequency of semitone k + 12 is twice the exact
\* frequency of semitone k to within two units in the last place of the
\* double (a relative error below 2^-51), under the same note name.
C8_TwiceWithinTolerance ==
    \A k \in 0..(i - 13) :
        /\ WithinTwoUlps(Entry(3 * (k + 12) + 1).frequency,
                         FDouble(Entry(3 * k + 1).frequency))
        /\ Entry(3 * (k + 12) + 1).name = Entry(3 * k + 1).name

C8_Witness ==
    /\ pc = "ready"
    /\ Entry(3 * 20 + 1).frequency # FDouble(Entry(3 * 8 + 1).frequency)
    /\ Entry(3 * 20 + 1).frequency = FNextUp(FDouble(Entry(3 * 8 + 1).frequency))
    /\ Entry(3 * 12 + 1).frequency = FDouble(Entry(1).frequency)

\* C9: the table is strictly ascending in frequency over its whole length.
C9_StrictlyAscending ==
    \A k \in 1..(Len(test_frequencies) - 1) :
        FLess(test_frequencies[k].frequency, test_frequencies[k + 1].frequency)

C9_Witness ==
    /\ pc = "ready"
    /\ Len(test_frequencies) = 90
    /\ FLess(Entry(2).frequency, Entry(3).frequency)
    /\ FLess(Entry(86).frequency, Entry(87).frequency)

\* the configuration is one the claim calls invalid
InvalidConfiguration ==
    \/ base_frequency.sign <= 0
    \/ semitone_count <= 0
    \/ 3 * semitone_count <= 0

Magnitude(k) == squared_magnitude(amplitudes[k])

Distance(a, b) == IF a < b THEN b - a ELSE a - b

\* candidate k is nearer to the frequency of the sine wave than every other
Closest(k) ==
    \A j \in 1..Len(candidates) :
        j # k => Distance(candidates[k].frequency, signal_frequency)
                 < Distance(candidates[j].frequency, signal_frequency)

\* C3 as claimed: for a sine wave of any length, the candidate closest to
\* its frequency has the largest squared magnitude of all candidates.
C3_ClosestCandidateIsLargest ==
    pc = "correlated" =>
        \A k \in 1..Len(candidates) :
            Closest(k) =>
                \A j \in 1..Len(candidates) : ~LessPair(Magnitude(k), Magnitude(j))

\* the window holds a whole number of periods of the frequency
WholePeriods(frequency) == (Len(timeseries) * frequency) % sample_rate = 0

\* C3 amended: when the non-empty window holds a whole number of periods of
\* the sine wave and of every candidate, and all these frequencies are below
\* half the sample rate, the candidate at the frequency of the sine wave has
\* a squared magnitude strictly greater than every other candidate.
C3_MatchingCandidateIsLargestOnWholePeriods ==
    (/\ pc = "correlated"
     /\ Len(timeseries) > 0
     /\ WholePeriods(signal_frequency)
     /\ \A j \in 1..Len(candidates) : WholePeriods(candidates[j].frequency))
        => \A k \in 1..Len(candidates) :
              candidates[k].frequency = signal_frequency =>
                  \A j \in 1..Len(candidates) :
                      j # k => LessPair(Magnitude(j), Magnitude(k))

C3_Witness ==
    /\ pc = "correlated"
    /\ Len(timeseries) = 6
    /\ sample_rate = 12
    /\ signal_frequency = 2
    /\ Len(candidates) = 2
    /\ candidates[1].frequency = 4
    /\ candidates[2].frequency = 2
    /\ Magnitude(1) = <<0, 0>>
    /\ Magnitude(2) = <<144, 0>>

\* C4: on an empty sample window the correlation returns one pair per
\* candidate, every pair (0, 0).
C4_EmptyWindowGivesZeroPairs ==
    (pc = "correlated" /\ timeseries = <<>>) =>
        /\ Len(amplitudes) = Len(candidates)
        /\ \A k \in 1..Len(candidates) : amplitudes[k] = << <<0, 0>>, <<0, 0>> >>

C4_Witness ==
    /\ pc = "correlated"
    /\ timeseries = <<>>
    /\ Len(candidates) = MaxCorrCand
    /\ Len(amplitudes) = MaxCorrCand
    /\ amplitudes[MaxCorrCand] = << <<0, 0>>, <<0, 0>> >>

(***************************************************************************)
(* Properties of the audio processor.                                      *)
(***************************************************************************)
\* so many ticks of currentTime are at least processInterval milliseconds
AtLeastAnInterval(ticks) == ticks * 1000 >= processInterval * TicksPerSecond

\* C11: no message is posted before currentTime reaches processInterval
\* (250 ms), and the currentTime of two consecutive messages differs by at
\* least processInterval.
C11_PostsAtLeastAnIntervalApart ==
    /\ \A k \in 1..Len(postedAt) : AtLeastAnInterval(postedAt[k])
    /\ \A k \in 1..(Len(postedAt) - 1) : AtLeastAnInterval(postedAt[k + 1] - postedAt[k])

C11_Witness ==
    /\ Len(port) = 2
    /\ Len(postedAt) = 2
    /\ postedAt[1] * 1000 = processInterval * TicksPerSecond
    /\ (postedAt[2] - postedAt[1]) * 1000 = processInterval * TicksPerSecond
    /\ lastCall.posted

\* C12 as claimed: no posted buffer holds more samples than sampleLength
\* (100 ms) of input at the sample rate of the stream.
C12_WindowsHoldAtMostSampleLength ==
    \A k \in 1..Len(port) :
        Len(port[k].buffer) * 1000 <= sampleLength * contextSampleRate

\* C13 as claimed: the sampleRate field of every posted message is the rate
\* at which the samples of its buffer were captured.
C13_MessageCarriesContextSampleRate ==
    \A k \in 1..Len(port) : port[k].sampleRate = contextSampleRate

\* C14 as claimed: every call of process, whatever the shape of its inputs
\* and outputs, completes without raising and returns true.
C14_ProcessAlwaysReturnsTrue ==
    lastCall.returned \in {"no call yet", "true"}

\* the buffers of the messages posted so far, one after the other
PostedSamples ==
    LET cat[k \in 0..Len(port)] ==
            IF k = 0 THEN <<>> ELSE cat[k - 1] \o port[k].buffer
    IN  cat[Len(port)]

\* C17: the buffers posted so far, in posting order, followed by the
\* internal buffer are the first-channel samples received so far, in order;
\* every posted buffer is non-empty; the internal buffer is empty right
\* after a post.
C17_NoSampleLostDuplicatedOrReordered ==
    /\ PostedSamples \o buffer = InputChannel(0, 0, received)
    /\ \A k \in 1..Len(port) : Len(port[k].buffer) > 0
    /\ lastCall.posted => buffer = <<>>

C17_Witness ==
    /\ Len(port) = 2
    /\ Len(port[1].buffer) = 2
    /\ Len(buffer) = 1
    /\ received = MaxSamples
    /\ ~lastCall.posted

(***************************************************************************)
(* Properties of the cycling through the reference strings.                *)
(***************************************************************************)
StringIndices == 0..(Len(guitar_strings) - 1)

\* the index before the k-th application of cycle_string
IndexBefore(k) == IF k = 1 THEN start_index ELSE visited_indices[k - 1]

\* C16: from any index in 0..5 every application of cycle_string yields an
\* index in 0..5, the successor of 5 is 0, the strings are visited in the
\* order i+1, i+2, ... modulo 6, and six successive applications visit all
\* six strings and return to the index they started from.
C16_CyclesThroughAllStrings ==
    /\ Len(guitar_strings) = 6
    /\ current_index \in StringIndices
    /\ \A k \in 1..Len(visited_indices) :
        /\ visited_indices[k] \in StringIndices
        /\ visited_indices[k] = (start_index + k) % 6
        /\ IndexBefore(k) = 5 => visited_indices[k] = 0
        /\ IndexBefore(k) < 5 => visited_indices[k] = IndexBefore(k) + 1
        /\ k >= 6 =>
            /\ { visited_indices[j] : j \in (k - 5)..k } = StringIndices
            /\ visited_indices[k] = IndexBefore(k - 5)

C16_Witness ==
    /\ pc = "cycling"
    /\ start_index = 5
    /\ visited_indices = <<0, 1, 2, 3, 4, 5>>
    /\ current_index = 5
    /\ get_current_string(current_index).name = "E (high)"


(***************************************************************************)
(* Properties of the decision rule in double arithmetic, stated on the     *)
(* call's input (the integer pairs and the gain) and on its output.        *)
(***************************************************************************)
\* the same correlation result without the gain, decided
Ungained == interpret_correlation_result_at_gain(frequency_amplitudes, 0, test_frequencies)

\* C15: the decision is scale-invariant: the call on a correlation result
\* multiplied by a common gain returns a candidate exactly when the call on
\* the result itself does, and then the candidate at the same index.
C15_DecisionIsScaleInvariant ==
    pc = "done" =>
        \E base \in {Ungained} :
            /\ (result = null) <=> (base.value = null)
            /\ result # null => maximum_index = base.maximum_index

\* the squared magnitudes of the call, in units
GainedMagnitudes == magnitudes_at_gain(frequency_amplitudes, gain_exponent)

C18_DetectedIndexIsValidAndPositive ==
    (pc = "done" /\ result # null) =>
        /\ maximum_index >= 0
        /\ maximum_index < Len(frequency_amplitudes)
        /\ GainedMagnitudes[maximum_index + 1] > 0
        /\ result = test_frequencies[maximum_index + 1]

C18_Witness ==
    /\ pc = "done"
    /\ result # null
    /\ gain_exponent < 0
    /\ Len(frequency_amplitudes) = MaxGainCand
    /\ maximum_index = Len(frequency_amplitudes) - 1
    /\ GainedMagnitudes[maximum_index + 1] > 0
    /\ result = test_frequencies[maximum_index + 1]

\* C19: the confidence of a call on n candidates is at most n, and so a call
\* on 10 candidates or fewer returns null.
C19_ConfidenceAtMostCandidateCount ==
    pc = "done" =>
        /\ ~FGreater(confidence, FromInt(Len(frequency_amplitudes)))
        /\ Len(frequency_amplitudes) <= confidence_threshold => result = null

=============================================================================
